---- MODULE Spec2Model ----
(***************************************************************************)
(* Patient-management HTTP service: an express application whose routes    *)
(* are guarded by the Cognito token middleware `authenticate` and call the *)
(* DynamoDB adapter (modules/dynamo.ts) and the OpenSearch adapter         *)
(* (modules/search.ts).                                                    *)
(*                                                                         *)
(* Node runs the handlers on one thread; every `await` of an external call *)
(* is a point where another request may run.  A request is therefore a     *)
(* small process: one step per awaited external call, the call taking its  *)
(* effect on the external service and returning within the step.           *)
(***************************************************************************)
EXTENDS Integers, Sequences, FiniteSets, TLC

(***************************************************************************)
(* Bounds of the model.                                                    *)
(***************************************************************************)
\* uuidv4() values the service may mint
MaxMint == 2
\* requests received over a behaviour
MaxRequests == 3
\* clock readings per second (Date.getTime() has sub-second resolution)
TicksPerSec == 2
\* largest clock reading, in ticks
MaxTick == 5

\* The requests in flight at a time: two in the service as a whole, one where
\* the middleware is examined alone.
Pair == {1, 2}
Single == {1}

(***************************************************************************)
(* Patient ids.  1..MaxMint are the values uuidv4() returns, in the order  *)
(* it returns them; 0 is an id a client makes up (any string that is not a *)
(* minted uuid).                                                           *)
(***************************************************************************)
ForeignId == 0
UUIDs == 1..MaxMint
IDs == {ForeignId} \cup UUIDs

(***************************************************************************)
(* Request bodies: the four client-supplied fields.  Text is a sequence of *)
(* words, Conditions and Allergies are arrays of one-word strings.         *)
(***************************************************************************)
Jane == [Name |-> "Jane", Address |-> <<"1", "Elm">>,
         Conditions |-> <<"asthma">>, Allergies |-> <<>>]
John == [Name |-> "John", Address |-> <<"2", "Oak">>,
         Conditions |-> <<"flu", "asthma">>, Allergies |-> <<"nuts">>]
Bodies == {Jane, John}
NoBody == [Name |-> "", Address |-> <<>>, Conditions |-> <<>>, Allergies |-> <<>>]

\* query strings of the search and filter routes
AddressQueries == {<<"1", "Elm">>, <<"9", "Oak">>}
ConditionQueries == {"asthma", "flu"}
NoQuery == <<>>

Range(s) == {s[i] : i \in DOMAIN s}

\* index.ts: const patientData = { PatientID: uuidv4(), Name, Address, ... }
PatientData(id, body) ==
    [PatientID |-> id, Name |-> body.Name, Address |-> body.Address,
     Conditions |-> body.Conditions, Allergies |-> body.Allergies]

\* the four client-supplied fields of an item
FieldsOf(item) ==
    [Name |-> item.Name, Address |-> item.Address,
     Conditions |-> item.Conditions, Allergies |-> item.Allergies]

(***************************************************************************)
(* The DynamoDB table `Patients`, a function from the PatientIDs present   *)
(* to their items, and the commands the adapter sends to it.               *)
(***************************************************************************)
\* PutCommand { TableName, Item }
PutItem(table, item) ==
    [i \in DOMAIN table \cup {item.PatientID} |->
        IF i = item.PatientID THEN item ELSE table[i]]

\* an UpdateExpression that leaves #allergies out
UpdateItemKeepingAllergies(table, id, body) ==
    [i \in DOMAIN table \cup {id} |->
        IF i # id THEN table[i]
        ELSE IF id \in DOMAIN table
             THEN [PatientData(id, body) EXCEPT !.Allergies = table[id].Allergies]
             ELSE PatientData(id, body)]

\* UpdateCommand { Key: {PatientID}, UpdateExpression: 'SET #name = :name, ...' }
\* with no ConditionExpression: UpdateItem edits the item, or adds a new item
\* holding the key and the SET attributes when the key is absent.
UpdateItem(table, id, body) ==
    [i \in DOMAIN table \cup {id} |->
        IF i = id THEN PatientData(id, body) ELSE table[i]]

\* DeleteCommand { Key: {PatientID} }: removing an absent key is a no-op
DeleteItem(table, id) ==
    [i \in DOMAIN table \ {id} |-> table[i]]

\* GetCommand { Key: {PatientID} }: Item is undefined when the key is absent
GetItem(table, id) ==
    IF id \in DOMAIN table THEN {table[id]} ELSE {}

\* QueryCommand on Address-index: KeyConditionExpression 'Address = :address'
QueryByAddress(table, address) ==
    {table[i] : i \in {j \in DOMAIN table : table[j].Address = address}}

\* ScanCommand: FilterExpression 'contains(#Conditions, :condition)'
ScanByCondition(table, condition) ==
    {table[i] : i \in {j \in DOMAIN table : condition \in Range(table[j].Conditions)}}

(***************************************************************************)
(* The OpenSearch index `patients`, a function from document ids to        *)
(* document bodies.                                                        *)
(***************************************************************************)
\* an index call without `id`: the engine files the document under an id of
\* its own
IndexDocumentUnderOwnId(idx, doc) ==
    [i \in DOMAIN idx \cup {-2} |-> IF i = -2 THEN doc ELSE idx[i]]

\* OpenSearchClient.index({ index, id: patientData.PatientID, body: patientData })
IndexDocument(idx, doc) ==
    [i \in DOMAIN idx \cup {doc.PatientID} |->
        IF i = doc.PatientID THEN doc ELSE idx[i]]

\* OpenSearchClient.delete({ index, id })
DeleteDocument(idx, id) ==
    [i \in DOMAIN idx \ {id} |-> idx[i]]

\* The delete API answers 404 for a document that is not there, and the client
\* rejects the promise of any call answered with a status of 400 or more.
DeleteDocumentFound(idx, id) == id \in DOMAIN idx

\* a match query: some word of the query is a word of the field
Matches(words, queryWords) == Range(words) \cap Range(queryWords) # {}

\* search({ query: { match: { Conditions: condition } } }) -> hits.hits
SearchConditionHits(idx, condition) ==
    {idx[i] : i \in {j \in DOMAIN idx : Matches(idx[j].Conditions, <<condition>>)}}

\* search({ query: { match: { Address: address } } }) -> hits.hits
SearchAddressHits(idx, address) ==
    {idx[i] : i \in {j \in DOMAIN idx : Matches(idx[j].Address, address)}}

\* the document ids of a set of hits or items
IdsOf(docs) == {d.PatientID : d \in docs}

(***************************************************************************)
(* HTTP responses.  res.status(n).send(text) leaves the JSON envelope      *)
(* empty; res.status(n).json(envelope) leaves the text empty.  `data` is   *)
(* the set of records the payload carries (empty for an undefined Item,    *)
(* for an empty Items array and for a command output with no attributes).  *)
(***************************************************************************)
TextResponse(status, text) ==
    [status |-> status, text |-> text, statusCode |-> "", data |-> {},
     description |-> ""]

JsonResponse(status, statusCode, data, description) ==
    [status |-> status, text |-> "", statusCode |-> statusCode, data |-> data,
     description |-> description]

NoResponse == TextResponse(0, "")

(***************************************************************************)
(* middleware/authentication.middleware.ts                                 *)
(***************************************************************************)
\* Configs.aws.clientId and Configs.aws.awsTokenIssuer
ClientId == "client-id"
TokenIssuer == "https://cognito-idp/pool"

\* exp claims (seconds since the epoch) of the tokens considered
ExpValues == {1}

\* The authorization header: absent, a string jwt.decode cannot decode, or a
\* JWT with its header's kid, whether its signature is the pool's for that
\* kid, and its token_use, client_id, iss and exp claims.
AbsentToken ==
    [form |-> "absent", kid |-> "none", sig |-> FALSE, token_use |-> "",
     client_id |-> "", iss |-> "", exp |-> 0]
GarbageToken == [AbsentToken EXCEPT !.form = "garbage"]
JwtTokens ==
    [form : {"jwt"}, kid : {"none", "known", "unknown"}, sig : BOOLEAN,
     token_use : {"access", "id"}, client_id : {ClientId, "other-client"},
     iss : {TokenIssuer, "https://elsewhere"}, exp : ExpValues]
Tokens == {AbsentToken, GarbageToken} \cup JwtTokens
ValidToken ==
    [form |-> "jwt", kid |-> "known", sig |-> TRUE, token_use |-> "access",
     client_id |-> ClientId, iss |-> TokenIssuer, exp |-> 1]

\* What the environment decides during one run of the middleware: whether the
\* JWKS endpoint answers, the clock when the verifier checks exp, and the
\* clock when the middleware reads new Date().getTime() (never earlier).
Envs ==
    {e \in [jwksUp : BOOLEAN, tVerify : 0..MaxTick, tCheck : 0..MaxTick] :
        e.tVerify <= e.tCheck}
CalmEnv == [jwksUp |-> TRUE, tVerify |-> 0, tCheck |-> 0]

\* client.getSigningKey(kid): the key set is fetched and holds the kid
GetSigningKey(kid, jwksUp) == jwksUp /\ kid = "known"

\* jwksClient({ cache: true, jwksUri, cacheMaxEntries: 5, cacheMaxAge: 600000 })
CacheMaxEntries == 5
CacheMaxAge == 600000
\* cacheMaxAge in clock ticks
CacheMaxAgeTicks == (CacheMaxAge \div 1000) * TicksPerSec

\* The signing-key cache of a jwks client: the kids whose keys it holds.  An
\* entry lives cacheMaxAge from the lookup that stored it.
\* const client = jwksClient({...}) is a statement of fetchJWKS: every run of
\* the middleware makes a client of its own, whose cache is empty.
NewJwksClient == {}

\* the run of the middleware reaches client.getSigningKey(kid)
ReachesKeyLookup(token) == token.form = "jwt" /\ token.kid # "none"

CacheHolds(cache, kid) == kid \in cache

\* requests to jwksUri a getSigningKey(kid) makes: none when the client's
\* cache holds the kid, one otherwise
KeyFetches(cache, kid) == IF CacheHolds(cache, kid) THEN 0 ELSE 1

\* the client's cache after getSigningKey(kid): a key that was fetched and
\* found is stored, an entry being dropped when the cache is full
CacheAfter(cache, kid, jwksUp) ==
    IF CacheHolds(cache, kid) \/ ~(jwksUp /\ kid = "known") THEN cache
    ELSE IF Cardinality(cache) < CacheMaxEntries THEN cache \cup {kid}
    ELSE (cache \ {CHOOSE k \in cache : TRUE}) \cup {kid}

\* CognitoJwtVerifier.create({userPoolId, tokenUse: 'access', clientId}).verify:
\* the signature, token_use, client_id and iss are checked, and the token is
\* expired when exp < Date.now() / 1000
VerifierVerify(token, tVerify) ==
    /\ token.sig
    /\ token.token_use = "access"
    /\ token.client_id = ClientId
    /\ token.iss = TokenIssuer
    /\ ~(token.exp * TicksPerSec < tVerify)

\* Math.round(new Date().getTime() / 1000)
CurrentTimeInSeconds(t) == (2 * t + TicksPerSec) \div (2 * TicksPerSec)

\* a comparison that turns away a token in its last second
NotExpiredStrict(currentTimeInSeconds, exp) == currentTimeInSeconds < exp

\* currentTimeInSeconds <= tokenData.exp
NotExpired(currentTimeInSeconds, exp) == currentTimeInSeconds <= exp

\* the if of lines 89-93
ClaimsValid(token, tCheck) ==
    /\ token.client_id = ClientId
    /\ token.iss = TokenIssuer
    /\ NotExpired(CurrentTimeInSeconds(tCheck), token.exp)

\* The statement of authenticate that throws, or "next" when next() is called.
AuthOutcome(token, env) ==
    IF token.form = "absent" THEN "no-header"
    ELSE IF token.form = "garbage" THEN "decode"
    ELSE IF token.kid = "none" THEN "no-kid"
    ELSE IF ~GetSigningKey(token.kid, env.jwksUp) THEN "signing-key"
    ELSE IF ~VerifierVerify(token, env.tVerify) THEN "verify"
    ELSE IF ~ClaimsValid(token, env.tCheck) THEN "claims"
    ELSE "next"

\* a catch that tells the caller which statement threw
AuthCatchTelling(thrownAt) == TextResponse(401, thrownAt)

\* catch (error) { res.status(401).send('Access denied') }, whichever throw
AuthCatch(thrownAt) == TextResponse(401, "Access denied")

(***************************************************************************)
(* Errors of the adapters and the catch of the route handlers.             *)
(***************************************************************************)
\* throw new Error('...') of the adapters' catch blocks
AdapterError(operation) ==
    CASE operation = "createPatient" -> "Error occurred while creating the patient"
      [] operation = "updatePatient" -> "Error occurred while updating the patient"
      [] operation = "deletePatient" -> "Error occurred while deleting the patient"
      [] operation = "findPatientsByAddress" ->
            "Error occurred while fetching the patient by address"
      [] operation = "findPatientsByCondition" ->
            "Error occurred while fetching the patient by condition"
      [] operation = "searchByCondition" ->
            "Error occurred while searching patient by condition from OpenSearch"
      [] operation = "searchByAddress" ->
            "Error occurred while searching patient by address from OpenSearch"
      [] OTHER -> "dynamo.send rejected"

\* a catch that takes the item back out of the table
CreateCatchRollingBack(tbl, item) == [i \in DOMAIN tbl \ {item.PatientID} |-> tbl[i]]

\* createPatient's catch after a failed indexPatient: the error is rethrown and
\* the item already put stays in the table
CreateCatchTable(tbl, item) == tbl

(***************************************************************************)
(* The state.                                                              *)
(***************************************************************************)
VARIABLES
    table,        \* DynamoDB table Patients: PatientID -> item
    index,        \* OpenSearch index patients: document id -> body
    minted,       \* how many ids uuidv4() has returned
    known,        \* the minted ids a 201 response has disclosed to clients
    req,          \* the request each slot is serving
    nreq,         \* requests received so far
    writeFailed   \* history: some create or delete was answered with an error

vars == <<table, index, minted, known, req, nreq, writeFailed>>

Slots == DOMAIN req

POST_PATIENTS == "POST /patients"
PATCH_PATIENT == "PATCH /patients/:id"
DELETE_PATIENT == "DELETE /patients/:id"
GET_SEARCH_CONDITION == "GET /patients/search/condition"
GET_SEARCH_ADDRESS == "GET /patients/search/address"
GET_ADDRESS == "GET /patients/address"
GET_CONDITION == "GET /patients/condition"
GET_PATIENT == "GET /patients/:id"
GET_HEALTH == "GET /"

ReadRoutes ==
    {GET_SEARCH_CONDITION, GET_SEARCH_ADDRESS, GET_ADDRESS, GET_CONDITION,
     GET_PATIENT}

\* every route but the health check
ProtectedRoutes == {POST_PATIENTS, PATCH_PATIENT, DELETE_PATIENT} \cup ReadRoutes

\* a DELETE route registered without the middleware
GuardedButDelete(route) == route \in ProtectedRoutes \ {DELETE_PATIENT}

\* app.<method>(path, authenticate, handler): the handler of the route runs
\* only after the middleware has called next()
Guarded(route) == route \in ProtectedRoutes

NoId == -1

\* pc: "idle"    no request in the slot
\*     "auth"    received, the middleware has not decided
\*     "handler" the handler is about to issue its first external call
\*     "index"   createPatient / deletePatient is about to call OpenSearch
\*     "done"    the response has been sent
\* accepted: the middleware called next()
\* calls:    the external calls issued for the request, in order
\* outage:   an external service failed a call of the request
\* thrown:   the message of the error the handler caught ("" when none)
\* fetches:  requests the middleware made to jwksUri for the request
\* cache:    the signing-key cache of the jwks client made for the request
IdleRequest ==
    [pc |-> "idle", route |-> "", token |-> AbsentToken, env |-> CalmEnv,
     id |-> NoId, body |-> NoBody, address |-> NoQuery, condition |-> "",
     accepted |-> FALSE, calls |-> <<>>, outage |-> FALSE, thrown |-> "",
     resp |-> NoResponse, fetches |-> 0, cache |-> {}]

NewRequest(route, token, id, body, address, condition) ==
    [IdleRequest EXCEPT !.pc = "auth", !.route = route, !.token = token,
                        !.id = id, !.body = body, !.address = address,
                        !.condition = condition]

\* ids a client can name: those a response has shown it, or one it makes up
Targets == known \cup {ForeignId}

\* creates received whose handler has not yet called uuidv4()
PendingCreates ==
    Cardinality({s \in Slots : /\ req[s].route = POST_PATIENTS
                               /\ req[s].pc \in {"auth", "handler"}})

\* the requests a client can send on a route
RequestsOn(route, tokens) ==
    CASE route = POST_PATIENTS ->
            {NewRequest(route, t, NoId, b, NoQuery, "") :
                t \in tokens, b \in {x \in Bodies : minted + PendingCreates < MaxMint}}
      [] route = PATCH_PATIENT ->
            {NewRequest(route, t[1], t[2], t[3], NoQuery, "") :
                t \in tokens \X Targets \X Bodies}
      [] route \in {DELETE_PATIENT, GET_PATIENT} ->
            {NewRequest(route, t, i, NoBody, NoQuery, "") :
                t \in tokens, i \in Targets}
      [] route \in {GET_SEARCH_ADDRESS, GET_ADDRESS} ->
            {NewRequest(route, t, NoId, NoBody, a, "") :
                t \in tokens, a \in AddressQueries}
      [] route \in {GET_SEARCH_CONDITION, GET_CONDITION} ->
            {NewRequest(route, t, NoId, NoBody, NoQuery, c) :
                t \in tokens, c \in ConditionQueries}

InitOf(slots) ==
    /\ table = <<>>
    /\ index = <<>>
    /\ minted = 0
    /\ known = {}
    /\ req = [s \in slots |-> IdleRequest]
    /\ nreq = 0
    /\ writeFailed = FALSE

Init == InitOf(Pair)

\* an external call is issued for the request
Call(r, name) == [r EXCEPT !.calls = Append(@, name)]

\* the call succeeded and the handler sends its success envelope
Succeed(r, resp) == [r EXCEPT !.pc = "done", !.resp = resp]

\* a catch that sends the error's message
HandlerCatchTelling(errorMessage) == TextResponse(500, errorMessage)

\* catch (err) { res.status(500).send('Something went wrong!') }
HandlerCatch(errorMessage) == TextResponse(500, "Something went wrong!")

\* the adapter threw: the handler's catch answers
Fail(r, operation, outage) ==
    [r EXCEPT !.pc = "done", !.outage = outage, !.thrown = AdapterError(operation),
              !.resp = HandlerCatch(AdapterError(operation))]

\* an adapter that logs the store's error and goes on to the index call
StoreRejectedCarryingOn(r, operation) == [r EXCEPT !.pc = "index", !.outage = TRUE]

\* await dynamo.send(...) of createPatient / deletePatient rejected: control
\* leaves the try block for the adapter's catch, which rethrows; the statement
\* that calls the index is not reached
StoreRejected(r, operation) == Fail(r, operation, TRUE)

(***************************************************************************)
(* A request arrives on a protected route: express runs the middleware the *)
(* route is registered with, then the handler.                             *)
(***************************************************************************)
Receive(s, tokens, routes) ==
    /\ req[s].pc = "idle"
    /\ nreq < MaxRequests
    /\ \E route \in routes : \E r \in RequestsOn(route, tokens) :
          req' = [req EXCEPT ![s] =
                    IF Guarded(route) THEN r ELSE [r EXCEPT !.pc = "handler"]]
    /\ nreq' = nreq + 1
    /\ UNCHANGED <<table, index, minted, known, writeFailed>>

\* app.get('/'): no middleware, res.status(200).send('Patient Management API')
Health(s) ==
    /\ req[s].pc = "idle"
    /\ nreq < MaxRequests
    /\ req' = [req EXCEPT ![s] =
                 [IdleRequest EXCEPT !.pc = "done", !.route = GET_HEALTH,
                                     !.resp = TextResponse(200, "Patient Management API")]]
    /\ nreq' = nreq + 1
    /\ UNCHANGED <<table, index, minted, known, writeFailed>>

\* authenticate(req, res, next)
Authenticate(s, envs) ==
    /\ req[s].pc = "auth"
    /\ \E env \in envs :
          LET token == req[s].token
              outcome == AuthOutcome(token, env)
              client == NewJwksClient
              fetches == IF ReachesKeyLookup(token)
                         THEN KeyFetches(client, token.kid) ELSE 0
              cache == IF ReachesKeyLookup(token)
                       THEN CacheAfter(client, token.kid, env.jwksUp) ELSE client
              r == [req[s] EXCEPT !.env = env, !.fetches = fetches, !.cache = cache]
          IN
          req' = [req EXCEPT ![s] =
                    IF outcome = "next"
                    THEN [r EXCEPT !.pc = "handler", !.accepted = TRUE]
                    ELSE [r EXCEPT !.pc = "done", !.resp = AuthCatch(outcome)]]
    /\ UNCHANGED <<table, index, minted, known, nreq, writeFailed>>

(***************************************************************************)
(* POST /patients -> createPatient                                         *)
(***************************************************************************)
\* the handler mints the id and createPatient awaits the PutCommand
CreatePut(s) ==
    /\ req[s].pc = "handler"
    /\ req[s].route = POST_PATIENTS
    /\ minted < MaxMint
    /\ minted' = minted + 1
    /\ LET r == Call([req[s] EXCEPT !.id = minted + 1], "dynamo.put") IN
       \E ok \in BOOLEAN :
          IF ok
          THEN /\ table' = PutItem(table, PatientData(r.id, r.body))
               /\ req' = [req EXCEPT ![s] = [r EXCEPT !.pc = "index"]]
               /\ UNCHANGED writeFailed
          ELSE /\ table' = table
               /\ req' = [req EXCEPT ![s] = StoreRejected(r, "createPatient")]
               /\ writeFailed' = TRUE
    /\ UNCHANGED <<index, known, nreq>>

\* createPatient awaits indexPatient, then the handler answers 201
CreateIndex(s) ==
    /\ req[s].pc = "index"
    /\ req[s].route = POST_PATIENTS
    /\ LET r == Call(req[s], "search.index")
           patientData == PatientData(r.id, r.body) IN
       \E ok \in BOOLEAN :
          IF ok
          THEN /\ index' = IndexDocument(index, patientData)
               /\ table' = table
               /\ req' = [req EXCEPT ![s] =
                            Succeed(r, JsonResponse(201, "CREATED_SUCCESSFULLY",
                                          {patientData}, "Patient created successfully"))]
               /\ known' = known \cup {r.id}
               /\ UNCHANGED writeFailed
          ELSE /\ index' = index
               /\ table' = CreateCatchTable(table, patientData)
               /\ req' = [req EXCEPT ![s] = Fail(r, "createPatient", TRUE)]
               /\ known' = known
               /\ writeFailed' = TRUE
    /\ UNCHANGED <<minted, nreq>>

(***************************************************************************)
(* PATCH /patients/:id -> updatePatient                                    *)
(***************************************************************************)
Update(s) ==
    /\ req[s].pc = "handler"
    /\ req[s].route = PATCH_PATIENT
    /\ LET r == Call(req[s], "dynamo.update") IN
       \E ok \in BOOLEAN :
          IF ok
          THEN /\ table' = UpdateItem(table, r.id, r.body)
               /\ req' = [req EXCEPT ![s] =
                            Succeed(r, JsonResponse(200, "UPDATED_SUCCESSFULLY", {},
                                          "Patient updated successfully"))]
          ELSE /\ table' = table
               /\ req' = [req EXCEPT ![s] = Fail(r, "updatePatient", TRUE)]
    /\ UNCHANGED <<index, minted, known, nreq, writeFailed>>

(***************************************************************************)
(* DELETE /patients/:id -> deletePatient                                   *)
(***************************************************************************)
DeleteStore(s) ==
    /\ req[s].pc = "handler"
    /\ req[s].route = DELETE_PATIENT
    /\ LET r == Call(req[s], "dynamo.delete") IN
       \E ok \in BOOLEAN :
          IF ok
          THEN /\ table' = DeleteItem(table, r.id)
               /\ req' = [req EXCEPT ![s] = [r EXCEPT !.pc = "index"]]
               /\ UNCHANGED writeFailed
          ELSE /\ table' = table
               /\ req' = [req EXCEPT ![s] = StoreRejected(r, "deletePatient")]
               /\ writeFailed' = TRUE
    /\ UNCHANGED <<index, minted, known, nreq>>

\* deletePatient awaits removePatientFromOpenSearch, then the handler answers
\* 200 with the DeleteCommand's output
DeleteIndex(s) ==
    /\ req[s].pc = "index"
    /\ req[s].route = DELETE_PATIENT
    /\ LET r == Call(req[s], "search.delete") IN
       \E ok \in BOOLEAN :
          IF ok /\ DeleteDocumentFound(index, r.id)
          THEN /\ index' = DeleteDocument(index, r.id)
               /\ req' = [req EXCEPT ![s] =
                            Succeed(r, JsonResponse(200, "DELETED_SUCCESSFULLY", {},
                                          "Patient deleted successfully"))]
               /\ UNCHANGED writeFailed
          ELSE /\ index' = index
               /\ req' = [req EXCEPT ![s] = Fail(r, "deletePatient", ~ok)]
               /\ writeFailed' = TRUE
    /\ UNCHANGED <<table, minted, known, nreq>>

(***************************************************************************)
(* The five read routes: one external call, then the answer.               *)
(***************************************************************************)
\* the external call of a read route
ReadCall(route) ==
    CASE route = GET_PATIENT -> "dynamo.get"
      [] route = GET_ADDRESS -> "dynamo.query"
      [] route = GET_CONDITION -> "dynamo.scan"
      [] route = GET_SEARCH_CONDITION -> "search.search"
      [] route = GET_SEARCH_ADDRESS -> "search.search"

\* data: result.Item, result.Items or the hits
ReadData(r, tbl, idx) ==
    CASE r.route = GET_PATIENT -> GetItem(tbl, r.id)
      [] r.route = GET_ADDRESS -> QueryByAddress(tbl, r.address)
      [] r.route = GET_CONDITION -> ScanByCondition(tbl, r.condition)
      [] r.route = GET_SEARCH_CONDITION -> SearchConditionHits(idx, r.condition)
      [] r.route = GET_SEARCH_ADDRESS -> SearchAddressHits(idx, r.address)

\* the adapter function a read route awaits
ReadAdapter(route) ==
    CASE route = GET_PATIENT -> "getPatient"
      [] route = GET_ADDRESS -> "findPatientsByAddress"
      [] route = GET_CONDITION -> "findPatientsByCondition"
      [] route = GET_SEARCH_CONDITION -> "searchByCondition"
      [] route = GET_SEARCH_ADDRESS -> "searchByAddress"

ReadStatusCode(route) ==
    IF route \in {GET_SEARCH_CONDITION, GET_SEARCH_ADDRESS}
    THEN "SEARCHED_SUCCESSFULLY" ELSE "FETCHED_SUCCESSFULLY"

ReadDescription(route) ==
    IF route \in {GET_SEARCH_CONDITION, GET_SEARCH_ADDRESS}
    THEN "Patient searched successfully" ELSE "Patient fetched successfully"

\* a handler that tells a read that found nothing from one that found something
ReadResponseNotFound(route, data) ==
    IF data = {} THEN TextResponse(404, "Not found")
    ELSE JsonResponse(200, ReadStatusCode(route), data, ReadDescription(route))

\* const response = { statusCode, data: result.Item | result.Items | hits,
\* description }; res.status(200).json(response): the result is not examined
ReadResponse(route, data) ==
    JsonResponse(200, ReadStatusCode(route), data, ReadDescription(route))

Read(s) ==
    /\ req[s].pc = "handler"
    /\ req[s].route \in ReadRoutes
    /\ LET r == Call(req[s], ReadCall(req[s].route)) IN
       \E ok \in BOOLEAN :
          req' = [req EXCEPT ![s] =
                    IF ok
                    THEN Succeed(r, ReadResponse(r.route, ReadData(r, table, index)))
                    ELSE Fail(r, ReadAdapter(r.route), TRUE)]
    /\ UNCHANGED <<table, index, minted, known, nreq, writeFailed>>

\* the client has its response; the slot is free for the next request
Finish(s) ==
    /\ req[s].pc = "done"
    /\ req' = [req EXCEPT ![s] = IdleRequest]
    /\ UNCHANGED <<table, index, minted, known, nreq, writeFailed>>

(***************************************************************************)
(* The service: every route, two requests at a time, callers that hold a   *)
(* valid token or send no or an undecodable authorization header.          *)
(***************************************************************************)
CallerTokens == {ValidToken, AbsentToken, GarbageToken}

Next ==
    \E s \in Slots :
        \/ Receive(s, CallerTokens, ProtectedRoutes)
        \/ Health(s)
        \/ Authenticate(s, {CalmEnv})
        \/ CreatePut(s)
        \/ CreateIndex(s)
        \/ Update(s)
        \/ DeleteStore(s)
        \/ DeleteIndex(s)
        \/ Read(s)
        \/ Finish(s)

Spec == Init /\ [][Next]_vars

(***************************************************************************)
(* The middleware alone: one request at a time on one route, with every    *)
(* token and every environment.                                            *)
(***************************************************************************)
InitAuth == InitOf(Single)

NextAuth ==
    \E s \in Slots :
        \/ Receive(s, Tokens, {GET_PATIENT})
        \/ Authenticate(s, Envs)
        \/ Read(s)
        \/ Finish(s)

SpecAuth == InitAuth /\ [][NextAuth]_vars

(***************************************************************************)
(* The middleware before two requests at once, with one token for each     *)
(* statement that can throw and an environment for each way the key        *)
(* endpoint and the clock can fail a good token.                           *)
(***************************************************************************)
DenyTokens ==
    {ValidToken, AbsentToken, GarbageToken,
     [ValidToken EXCEPT !.kid = "none"],
     [ValidToken EXCEPT !.kid = "unknown"],
     [ValidToken EXCEPT !.sig = FALSE],
     [ValidToken EXCEPT !.client_id = "other-client"],
     [ValidToken EXCEPT !.iss = "https://elsewhere"]}

\* the key endpoint is down; the token has expired before the verifier runs;
\* the token expires between the verifier's check and the middleware's
DenyEnvs ==
    {CalmEnv,
     [CalmEnv EXCEPT !.jwksUp = FALSE],
     [CalmEnv EXCEPT !.tVerify = MaxTick, !.tCheck = MaxTick],
     [CalmEnv EXCEPT !.tVerify = TicksPerSec, !.tCheck = MaxTick]}

NextDeny ==
    \E s \in Slots :
        \/ Receive(s, DenyTokens, {GET_PATIENT})
        \/ Authenticate(s, DenyEnvs)
        \/ Read(s)
        \/ Finish(s)

SpecDeny == Init /\ [][NextDeny]_vars

(***************************************************************************)
(* Properties.                                                             *)
(***************************************************************************)
\* no request is in flight
Quiescent == \A s \in Slots : req[s].pc \in {"idle", "done"}

\* the middleware has decided the request in slot s
Decided(s) ==
    /\ req[s].route \in ProtectedRoutes
    /\ req[s].pc \in {"handler", "index", "done"}

\* the middleware has turned the request in slot s away
Denied(s) == Decided(s) /\ ~req[s].accepted

\* C1: in every quiescent state reached through creates, updates and deletes of
\* which every create and delete was answered with success, the table and the
\* index hold the same set of PatientIDs.
C1_StoresHoldSameIds ==
    (Quiescent /\ ~writeFailed) => DOMAIN table = DOMAIN index

\* every step of the trust chain before the clock is read succeeds: a header
\* that decodes to a JWT with a kid, the signing key of that kid resolves, the
\* signature verifies for an access token, client_id and iss are the configured
\* ones
ChainHolds(token, env) ==
    /\ token.form = "jwt"
    /\ token.kid # "none"
    /\ env.jwksUp /\ token.kid = "known"
    /\ token.sig /\ token.token_use = "access"
    /\ token.client_id = ClientId
    /\ token.iss = TokenIssuer

\* C2: the middleware passes a request on exactly when every step succeeds in
\* order and the clock is at or before exp: a request is passed on only if the
\* chain holds and the clock had not passed exp when the verifier ran; it is
\* passed on whenever the chain holds and the clock has not passed exp when the
\* middleware reads it (exp itself included); one second after exp it is turned
\* away; and a request turned away is answered 401.
C2_AcceptsIffChainHolds ==
    \A s \in Slots : Decided(s) =>
        LET token == req[s].token
            env == req[s].env
            expTick == token.exp * TicksPerSec IN
        /\ req[s].accepted => (ChainHolds(token, env) /\ env.tVerify <= expTick)
        /\ (ChainHolds(token, env) /\ env.tCheck <= expTick) => req[s].accepted
        /\ env.tVerify >= expTick + TicksPerSec => ~req[s].accepted
        /\ ~req[s].accepted => (req[s].pc = "done" /\ req[s].resp.status = 401)

\* a token is passed on in the very second it expires
C2_Witness ==
    \E s \in Slots :
        /\ Decided(s) /\ req[s].accepted
        /\ req[s].env.tCheck = req[s].token.exp * TicksPerSec
        /\ req[s].env.tVerify = req[s].env.tCheck

\* C3: every request the middleware turns away gets 401 'Access denied', and
\* two requests turned away at different statements get the same response.
C3_DenialsIdentical ==
    \A s, t \in Slots : (Denied(s) /\ Denied(t)) =>
        /\ req[s].resp = TextResponse(401, "Access denied")
        /\ req[s].resp = req[t].resp

\* one request turned away for its missing header stands beside one turned
\* away by the final claims check
C3_Witness ==
    \E s, t \in Slots :
        /\ Denied(s) /\ AuthOutcome(req[s].token, req[s].env) = "no-header"
        /\ Denied(t) /\ AuthOutcome(req[t].token, req[t].env) = "claims"

\* C4: on a protected route an external call is issued only for a request the
\* middleware has passed on, and a request with no or an undecodable
\* authorization header is answered 401 without any call.
C4_NoCallBeforeAccept ==
    \A s \in Slots : req[s].route \in ProtectedRoutes =>
        /\ req[s].calls # <<>> => req[s].accepted
        /\ (req[s].token.form \in {"absent", "garbage"} /\ req[s].pc # "auth") =>
               /\ req[s].pc = "done"
               /\ req[s].resp.status = 401
               /\ req[s].calls = <<>>

\* an undecodable header has been answered 401 with no call, while an accepted
\* request has issued both calls of a delete
C4_Witness ==
    \E s, t \in Slots :
        /\ req[s].pc = "done" /\ req[s].token.form = "garbage"
        /\ req[s].route = POST_PATIENTS
        /\ req[s].resp.status = 401 /\ req[s].calls = <<>>
        /\ req[t].accepted /\ req[t].calls = <<"dynamo.delete", "search.delete">>

\* the request in slot s takes, in this step, the step that ends its handler
EndsNow(s, route, from) ==
    /\ req[s].route = route
    /\ req[s].pc = from
    /\ req'[s].pc = "done"

\* C5: when the index call of a create or of a delete fails, the step changes
\* neither store: the item put by the create stays in the table and out of the
\* index, nothing is put back for the delete, and the caller gets the generic
\* 500.
C5_NoCompensation ==
    [][\A s \in Slots :
          /\ (EndsNow(s, POST_PATIENTS, "index") /\ req'[s].thrown # "") =>
                /\ table' = table /\ index' = index
                /\ GetItem(table', req[s].id) = {PatientData(req[s].id, req[s].body)}
                /\ req[s].id \notin DOMAIN index'
                /\ req'[s].resp = TextResponse(500, "Something went wrong!")
          /\ (EndsNow(s, DELETE_PATIENT, "index") /\ req'[s].thrown # "") =>
                /\ table' = table /\ index' = index
                /\ req'[s].resp = TextResponse(500, "Something went wrong!")
      ]_vars

\* a create has left its item in the table alone, and a delete has left its
\* document in the index alone; both were answered 500
C5_Witness ==
    \E s, t \in Slots :
        /\ req[s].pc = "done" /\ req[s].route = POST_PATIENTS
        /\ req[s].calls = <<"dynamo.put", "search.index">>
        /\ req[s].resp.status = 500
        /\ req[s].id \in DOMAIN table /\ req[s].id \notin DOMAIN index
        /\ req[t].pc = "done" /\ req[t].route = DELETE_PATIENT
        /\ req[t].calls = <<"dynamo.delete", "search.delete">>
        /\ req[t].resp.status = 500
        /\ req[t].id \notin DOMAIN table /\ req[t].id \in DOMAIN index

\* C6: a successful update leaves in the table, under the given id, an item
\* with exactly the four given fields, leaves every other item as it was and
\* leaves the index as it was, so that a GET by id returns the new Address
\* while the searches return what they returned before.
C6_UpdateFrame ==
    [][\A s \in Slots :
          (EndsNow(s, PATCH_PATIENT, "handler") /\ req'[s].resp.status = 200) =>
             LET id == req[s].id
                 body == req[s].body IN
             /\ GetItem(table', id) = {PatientData(id, body)}
             /\ \A item \in GetItem(table', id) : item.Address = body.Address
             /\ DOMAIN table' \ {id} = DOMAIN table \ {id}
             /\ \A i \in DOMAIN table \ {id} : table'[i] = table[i]
             /\ index' = index
             /\ \A a \in AddressQueries :
                    SearchAddressHits(index', a) = SearchAddressHits(index, a)
             /\ \A c \in ConditionQueries :
                    SearchConditionHits(index', c) = SearchConditionHits(index, c)
      ]_vars

\* a patient filed as Jane of 1 Elm has been updated: the table holds the new
\* address, the address search still finds the patient at 1 Elm
C6_Witness ==
    \E s \in Slots :
        /\ req[s].pc = "done" /\ req[s].route = PATCH_PATIENT
        /\ req[s].resp.status = 200
        /\ req[s].id \in DOMAIN table /\ req[s].id \in DOMAIN index
        /\ table[req[s].id].Address = <<"2", "Oak">>
        /\ table[req[s].id].Allergies = <<"nuts">>
        /\ req[s].id \in IdsOf(SearchAddressHits(index, <<"1", "Elm">>))

\* C7: a create answered 201 carries an id the service has just minted, a GET
\* of that id returns the four fields sent, the index holds the document under
\* that very id, and a search by any of its conditions returns it.
C7_CreateRoundTrip ==
    [][\A s \in Slots :
          (EndsNow(s, POST_PATIENTS, "index") /\ req'[s].resp.status = 201) =>
             LET id == req[s].id
                 body == req[s].body IN
             /\ id \in UUIDs /\ id \notin known
             /\ req'[s].resp.data = {PatientData(id, body)}
             /\ \A item \in GetItem(table', id) : FieldsOf(item) = body
             /\ GetItem(table', id) # {}
             /\ id \in DOMAIN index' /\ index'[id] = PatientData(id, body)
             /\ \A c \in Range(body.Conditions) :
                    id \in IdsOf(SearchConditionHits(index', c))
      ]_vars

\* Jane has been created: the table holds her and a search for asthma finds her
C7_Witness ==
    \E s \in Slots :
        /\ req[s].pc = "done" /\ req[s].route = POST_PATIENTS
        /\ req[s].resp.status = 201 /\ req[s].body = Jane
        /\ GetItem(table, req[s].id) = {PatientData(req[s].id, Jane)}
        /\ req[s].id \in IdsOf(SearchConditionHits(index, "asthma"))

\* C8: when a delete is answered with success, a GET of its id returns no item
\* and no condition or address search returns a document with that id.
C8_DeletedEverywhere ==
    [][\A s \in Slots :
          (EndsNow(s, DELETE_PATIENT, "index") /\ req'[s].resp.status = 200) =>
             /\ GetItem(table', req[s].id) = {}
             /\ \A c \in ConditionQueries :
                    req[s].id \notin IdsOf(SearchConditionHits(index', c))
             /\ \A a \in AddressQueries :
                    req[s].id \notin IdsOf(SearchAddressHits(index', a))
      ]_vars

\* C9: a delete of an id that a create once returned and that is now in neither
\* the table nor the index ends, when no service fails it, with the success
\* response.
C9_SecondDeleteSucceeds ==
    \A s \in Slots :
        ( /\ req[s].pc = "done" /\ req[s].route = DELETE_PATIENT
          /\ req[s].accepted /\ ~req[s].outage
          /\ req[s].id \in known
          /\ req[s].id \notin DOMAIN table /\ req[s].id \notin DOMAIN index )
        => /\ req[s].resp.status = 200
           /\ req[s].resp.statusCode = "DELETED_SUCCESSFULLY"

\* C10: a handler whose adapter throws answers at once with 500 'Something
\* went wrong!', whichever adapter threw; a failed external call always makes
\* the adapter throw; and the response carries nothing of the error.
C10_GenericFailure ==
    \A s \in Slots : (req[s].route \in ProtectedRoutes /\ req[s].accepted) =>
        /\ req[s].outage => req[s].thrown # ""
        /\ req[s].thrown # "" =>
              /\ req[s].pc = "done"
              /\ req[s].resp = TextResponse(500, "Something went wrong!")
              /\ req[s].resp.text # req[s].thrown
        /\ req[s].resp.status = 500 => req[s].thrown # ""

\* the table's adapter has failed one request and the index's adapter another
C10_Witness ==
    \E s, t \in Slots :
        /\ req[s].pc = "done" /\ req[s].route = GET_PATIENT
        /\ req[s].outage /\ req[s].resp.status = 500
        /\ req[t].pc = "done" /\ req[t].route = GET_SEARCH_ADDRESS
        /\ req[t].outage /\ req[t].resp.status = 500
        /\ req[s].thrown # req[t].thrown
        /\ req[s].resp = req[t].resp

\* C11: a read that matches nothing is a success: when the table answers a GET
\* of an id it does not hold, the handler sends 200 with the success envelope
\* and no item as data, and when it answers an address query that no item
\* matches, the handler sends 200 with the success envelope and no items.
C11_NothingFoundIsSuccess ==
    [][\A s \in Slots :
          /\ ( /\ EndsNow(s, GET_PATIENT, "handler") /\ ~req'[s].outage
                /\ req[s].id \notin DOMAIN table ) =>
                req'[s].resp = JsonResponse(200, "FETCHED_SUCCESSFULLY", {},
                                            "Patient fetched successfully")
          /\ ( /\ EndsNow(s, GET_ADDRESS, "handler") /\ ~req'[s].outage
                /\ \A i \in DOMAIN table : table[i].Address # req[s].address ) =>
                req'[s].resp = JsonResponse(200, "FETCHED_SUCCESSFULLY", {},
                                            "Patient fetched successfully")
      ]_vars

\* while the table holds a patient, a GET of an id it does not hold and a query
\* for an address nobody lives at have both been answered 200 with no data
C11_Witness ==
    \E s, t \in Slots :
        /\ DOMAIN table # {}
        /\ req[s].pc = "done" /\ req[s].route = GET_PATIENT /\ req[s].accepted
        /\ req[s].id \notin DOMAIN table
        /\ req[s].resp.status = 200 /\ req[s].resp.data = {}
        /\ req[t].pc = "done" /\ req[t].route = GET_ADDRESS /\ req[t].accepted
        /\ req[t].address = <<"9", "Oak">>
        /\ req[t].resp.status = 200 /\ req[t].resp.data = {}

\* C12: the signing-key cache is shared across requests and keyed by kid: when
\* a request whose key was resolved is still being served and the middleware
\* runs for another request bearing the same kid at a clock reading at most
\* cacheMaxAge later, the key is resolved with no request to jwksUri; and no
\* cache ever holds more than cacheMaxEntries keys.
C12_KeyCacheShared ==
    [][\A s, t \in Slots :
          /\ ( /\ s # t
                /\ req[s].accepted
                /\ req[t].pc = "auth" /\ req'[t].pc # "auth"
                /\ ReachesKeyLookup(req[t].token)
                /\ req[t].token.kid = req[s].token.kid
                /\ req'[t].env.tVerify >= req[s].env.tVerify
                /\ req'[t].env.tVerify - req[s].env.tVerify <= CacheMaxAgeTicks ) =>
                req'[t].fetches = 0
          /\ Cardinality(req'[s].cache) <= CacheMaxEntries
      ]_vars

\* the store call and the index call of a create or a delete
StoreCallOf(route) == IF route = POST_PATIENTS THEN "dynamo.put" ELSE "dynamo.delete"
IndexCallOf(route) == IF route = POST_PATIENTS THEN "search.index" ELSE "search.delete"

\* C13: within one create or one delete the two writes go store first, then
\* index: a step issues the index call only for a request whose one call so
\* far is the store call and which no service has failed; the step in which
\* the store call fails ends the request and leaves the index as it was; and
\* a request issues no calls but the store call followed by the index call.
C13_StoreThenIndex ==
    [][\A s \in Slots : req[s].route \in {POST_PATIENTS, DELETE_PATIENT} =>
          LET store == StoreCallOf(req[s].route)
              idx == IndexCallOf(req[s].route)
              before == req[s].calls
              after == req'[s].calls IN
          /\ (req'[s].route = req[s].route /\ after # before) =>
                \/ before = <<>> /\ after = <<store>>
                \/ /\ before = <<store>> /\ after = <<store, idx>>
                   /\ ~req[s].outage /\ req[s].thrown = ""
          /\ (before = <<>> /\ after = <<store>> /\ req'[s].outage) =>
                /\ index' = index
                /\ req'[s].pc = "done"
          /\ (req[s].pc = "done" /\ before = <<store>>) =>
                (req'[s].route = req[s].route => after = before)
      ]_vars

\* a create has issued both calls in order and was answered 201, while a
\* delete whose store call failed has issued that call alone
C13_Witness ==
    \E s, t \in Slots :
        /\ req[s].pc = "done" /\ req[s].route = POST_PATIENTS
        /\ req[s].calls = <<"dynamo.put", "search.index">>
        /\ req[s].resp.status = 201
        /\ req[t].pc = "done" /\ req[t].route = DELETE_PATIENT
        /\ req[t].calls = <<"dynamo.delete">>
        /\ req[t].outage /\ req[t].resp.status = 500
        /\ req[t].id \in DOMAIN index

====
